---- MODULE Spec2Model ----
(***************************************************************************)
(* Bounded web crawler of arkeodev/scraper: the thread-pool crawler        *)
(* (scraper.py + link_collector.py + robots.py), the two robots.txt        *)
(* checkers (robots.py, scraping/robots.py), the rate limiter, the         *)
(* Playwright scraper (scraping/web_scraper.py), the functions AppConfig,   *)
(* _normalize_link and extract_readable_text, the Streamlit entry point    *)
(* (main.py) and the recursive crawler (scraping/scraper.py).              *)
(*                                                                         *)
(* Strings are sequences of characters (each a one-symbol TLA+ string, or  *)
(* a longer chunk where the inside of the chunk is never inspected), so    *)
(* str.startswith, str.rstrip and `in` are computed on them.               *)
(* A URL is the 5-tuple urlparse splits it into.                           *)
(***************************************************************************)
EXTENDS Integers, Sequences, FiniteSets, Bags, TLC

VARIABLES
    \* ---- the robots.txt checkers (robots.py / scraping/robots.py)
    base_url,           \* the seed URL given to the constructor(s)
    response,           \* what the server answers to the robots.txt request
    robots_url,         \* robots.py: self.robots_url
    rules,              \* robots.py: self.rules
    fetched,            \* robots.py: outcome of fetch() as its caller sees it
    requested,          \* robots.py: the URL handed to requester.get
    content,            \* scraping/robots.py: self.content
    fetched2,           \* scraping/robots.py: outcome of fetch()
    requested2,         \* scraping/robots.py: the URL handed to requests.get
    asked,              \* the last is_allowed call and what it returned
    \* ---- the crawl session of scraper.py (WebScraper + LinkCollector)
    site,               \* the web site: links, text length and load failure per page
    max_links,          \* ScraperConfig.max_links
    scraping_depth,     \* ScraperConfig.scraping_depth
    pc,                 \* where WebScraper.scrape stands
    lc_visited_urls,    \* LinkCollector.visited_urls
    links_to_visit,     \* collect_all_links: the frontier, <<url, depth>> entries
    collected_links,    \* collect_all_links: the list it returns
    visited_urls,       \* WebScraper.visited_urls
    documents,          \* WebScraper.documents
    tasks,              \* the scrape_page calls submitted to the pool
    driver,             \* the shared Chrome driver: page held, quit() calls
    loads,              \* the bag of driver.get calls so far: url and phase
    pushed,             \* every <<url, depth>> ever put on the frontier
    \* ---- the rate limiter (LinkCollector._wait_for_next_request and its callers)
    now,                \* time.time()
    last_request_time,  \* LinkCollector.last_request_time
    callers,            \* the threads between _wait_for_next_request and driver.get
    starts,             \* the bag of times at which a driver.get started
    \* ---- functions applied to an input: AppConfig, _normalize_link,
    \* ---- extract_readable_text
    app_config,         \* the AppConfig constructed, once it is
    given_url,          \* the URL given to _normalize_link
    normalized,         \* what the two _normalize_link return for it
    html,               \* the page given to extract_readable_text: what the
                        \* two library stages do with it
    readable_text,      \* what the two extract_readable_text end with
    \* ---- the Playwright scraper (scraping/web_scraper.py)
    fault,              \* the call that raises in this run, and what it raises
    pw_pc,              \* where WebScraper.scrape stands
    browser,            \* the browser _setup_browser returned
    pw_page,            \* the page browser.new_page returned
    pw_documents,       \* WebScraper.documents
    pw_result,          \* how scrape ended for its caller
    \* ---- the Streamlit entry point (main.py)
    st_url,             \* st.session_state.url
    error_mes,          \* st.session_state.error_mes
    scraping_done,      \* st.session_state.scraping_done
    network,            \* what start_scraping has sent or built so far
    main_pc,            \* where start_scraping stands
    \* ---- the recursive crawler of scraping/scraper.py
    lock,               \* WebScraper.lock: the caller holding it, 0 when free
    stamps,             \* every value written to last_request_time, in order
    stack               \* the active calls of _scrape_recursive, innermost last

robotsVars == <<base_url, response, robots_url, rules, fetched, requested,
                content, fetched2, requested2, asked>>

crawlVars == <<site, max_links, scraping_depth, pc, lc_visited_urls,
               links_to_visit, collected_links, visited_urls, documents, tasks,
               driver, loads, pushed>>

rateVars == <<now, last_request_time, callers, starts>>

toolVars == <<app_config, given_url, normalized, html, readable_text>>

pwVars == <<fault, pw_pc, browser, pw_page, pw_documents, pw_result>>

mainVars == <<st_url, error_mes, scraping_done, network, main_pc>>

lockVars == <<lock, stamps>>

\* what the crawl session, the checkers and the rate limiter leave alone
idleVars == <<toolVars, pwVars, mainVars, lockVars, stack>>

vars == <<robotsVars, crawlVars, rateVars, toolVars, pwVars, mainVars,
          lockVars, stack>>

None == "None"

\* ------------------------------------------------------------------ strings

StartsWith(s, p) ==
    Len(p) <= Len(s) /\ SubSeq(s, 1, Len(p)) = p

\* str.__contains__: t in s
Contains(s, t) ==
    \E i \in 0..(Len(s) - Len(t)) : SubSeq(s, i + 1, i + Len(t)) = t

LowerChar(c) ==
    CASE c = "B" -> "b"
      [] c = "D" -> "d"
      [] c = "HTTP" -> "http"
      [] OTHER -> c

Lower(s) == [i \in 1..Len(s) |-> LowerChar(s[i])]

RECURSIVE RStripSlash(_)
RStripSlash(s) ==
    IF s # <<>> /\ s[Len(s)] = "/" THEN RStripSlash(SubSeq(s, 1, Len(s) - 1))
    ELSE s

\* --------------------------------------------------------------------- URLs

Url(scheme, netloc, path) ==
    [scheme |-> scheme, netloc |-> netloc, path |-> path,
     query |-> <<>>, fragment |-> <<>>]

\* no URL (yet)
NoUrl == Url("", "", <<>>)

RobotsTxtPath == <<"/", "robots.txt">>

\* robots.py RobotsTxtChecker._create_robots_url: f"http://{netloc}/robots.txt"
CreateRobotsUrl(u) == Url("http", u.netloc, RobotsTxtPath)

\* scraping/robots.py: f"{self.base_url.rstrip('/')}/robots.txt".  The suffix lands
\* in the last non-empty component of the URL string.
ScrapingRobotsUrl(u) ==
    IF u.fragment # <<>>
    THEN [u EXCEPT !.fragment = RStripSlash(@) \o RobotsTxtPath]
    ELSE IF u.query # <<>>
    THEN [u EXCEPT !.query = RStripSlash(@) \o RobotsTxtPath]
    ELSE [u EXCEPT !.path = RStripSlash(@) \o RobotsTxtPath]

\* --------------------------------------------------------------- robots.txt
\* A robots.txt line is its leading field as written (with its colon) and the
\* stripped value after the colon; values hold no further colon, so
\* line.split(":")[1].strip() is the value.

Line(key, val) == [key |-> key, val |-> val]

LowerKey(k) ==
    CASE k = "User-agent:" -> "user-agent:"
      [] k = "Disallow:" -> "disallow:"
      [] OTHER -> k

EmptyRules == [a \in {} |-> <<>>]

\* robots.py RobotsTxtChecker._parse: the loop from line i on.  The optional
\* current_user_agent is <<>> for None and <<agent>> once a group is open.
RECURSIVE ParseFrom(_, _, _, _)
ParseFrom(lines, i, current_user_agent, rs) ==
    IF i > Len(lines) THEN rs
    ELSE LET line == lines[i] IN
         IF line.key = "User-agent:"
         THEN ParseFrom(lines, i + 1, <<line.val>>,
                        [a \in DOMAIN rs \cup {line.val} |->
                            IF a = line.val THEN <<>> ELSE rs[a]])
         ELSE IF line.key = "Disallow:" /\ current_user_agent # <<>>
         THEN ParseFrom(lines, i + 1, current_user_agent,
                        [rs EXCEPT ![current_user_agent[1]] = Append(@, line.val)])
         ELSE ParseFrom(lines, i + 1, current_user_agent, rs)

Parse(text, rs) == ParseFrom(text, 1, <<>>, rs)

\* dict.get(user_agent, [])
RulesGet(rs, user_agent) ==
    IF user_agent \in DOMAIN rs THEN rs[user_agent] ELSE <<>>

\* is_allowed that compares the path with each Disallow value for equality
IsAllowed_ExactMatch(rs, path, user_agent) ==
    LET disallow_paths == RulesGet(rs, user_agent)
    IN  ~ \E k \in 1..Len(disallow_paths) : path = disallow_paths[k]

\* robots.py RobotsTxtChecker.is_allowed
IsAllowed(rs, path, user_agent) ==
    LET disallow_paths == RulesGet(rs, user_agent)
    IN  ~ \E k \in 1..Len(disallow_paths) : StartsWith(path, disallow_paths[k])

\* The body of robots.py RobotsTxtChecker.fetch, before the decorator: the
\* exception it ends with (None: it returns) and the rules it leaves.
\*   200      raise_for_status passes, the text is parsed
\*   404      HTTPError carrying the response; status 404 is logged only
\*   500      HTTPError carrying the response; ConnectionError is raised
\*   timeout, refused   RequestException with e.response None, so reading
\*            e.response.status_code raises AttributeError in the handler
FetchBody(resp, rs) ==
    CASE resp.kind = "200" -> [exc |-> None, rules |-> Parse(resp.text, rs)]
      [] resp.kind = "404" -> [exc |-> None, rules |-> rs]
      [] resp.kind = "500" -> [exc |-> "ConnectionError", rules |-> rs]
      [] OTHER -> [exc |-> "AttributeError", rules |-> rs]

\* a decorator that logs the exception and raises it again
SafeRun_Reraise(out) == out

\* config/logging.py safe_run: any Exception is logged and None is returned.
SafeRun(out) == [out EXCEPT !.exc = None]

\* scraping/robots.py self.content: None, the "not found" sentinel string, or
\* the text of the response.
NoContent == [is |-> "None", text |-> <<>>]

NotFoundContent ==
    [is |-> "robots.txt not found. Proceeding with scraping.", text |-> <<>>]

TextContent(text) == [is |-> "text", text |-> text]

\* scraping/robots.py RobotsTxtChecker.fetch without the status-404 branch
ScrapingFetch_No404(resp, cont) ==
    CASE resp.kind = "200" -> [exc |-> None, content |-> TextContent(resp.text)]
      [] OTHER -> [exc |-> "ValueError", content |-> cont]

\* scraping/robots.py RobotsTxtChecker.fetch: the exception it ends with (None: it
\* returns) and the content it leaves.
\*   404      the sentinel is stored and fetch returns
\*   200      raise_for_status passes, the text is stored
\*   500      HTTPError from raise_for_status, re-raised as ValueError
\*   timeout, refused   raised by requests.get, re-raised as ValueError
ScrapingFetch(resp, cont) ==
    CASE resp.kind = "404" -> [exc |-> None, content |-> NotFoundContent]
      [] resp.kind = "200" -> [exc |-> None, content |-> TextContent(resp.text)]
      [] OTHER -> [exc |-> "ValueError", content |-> cont]

\* scraping/robots.py RobotsTxtChecker._parse_robots_txt: the loop from line i on.
RECURSIVE ScrapingParseFrom(_, _, _, _)
ScrapingParseFrom(lines, i, current_user_agent, ds) ==
    IF i > Len(lines) THEN ds
    ELSE LET line == lines[i] IN
         IF line.key = "" \/ line.key = "#"
         THEN ScrapingParseFrom(lines, i + 1, current_user_agent, ds)
         ELSE IF LowerKey(line.key) = "user-agent:"
         THEN ScrapingParseFrom(lines, i + 1, <<line.val>>,
                        [a \in DOMAIN ds \cup {line.val} |->
                            IF a = line.val THEN <<>> ELSE ds[a]])
         ELSE IF LowerKey(line.key) = "disallow:"
                 /\ current_user_agent # <<>> /\ current_user_agent[1] # <<>>
         THEN ScrapingParseFrom(lines, i + 1, current_user_agent,
                        [ds EXCEPT ![current_user_agent[1]] = Append(@, line.val)])
         ELSE ScrapingParseFrom(lines, i + 1, current_user_agent, ds)

ScrapingParse(text) == ScrapingParseFrom(text, 1, <<>>, EmptyRules)

\* scraping/robots.py RobotsTxtChecker._is_path_allowed
IsPathAllowed(user_agent, path, ds) ==
    ~ \E ua \in DOMAIN ds :
        /\ ua = <<"*">> \/ Contains(Lower(user_agent), Lower(ua))
        /\ \E k \in 1..Len(ds[ua]) : StartsWith(path, ds[ua][k])

\* scraping/robots.py RobotsTxtChecker.is_allowed(user_agent): the path checked is
\* the path of base_url, whatever the caller passes.
ScrapingIsAllowed(base, cont, user_agent) ==
    IF cont = NoContent THEN "ValueError"
    ELSE IF cont = NotFoundContent THEN "True"
    ELSE IF IsPathAllowed(user_agent,
                          IF base.path = <<>> THEN <<"/">> ELSE base.path,
                          ScrapingParse(cont.text))
         THEN "True" ELSE "False"

\* ------------------------------------------------------------------- inputs

Star == <<"*">>

PathRoot == <<"/">>
PathD == <<"/", "d">>
PathDA == <<"/", "d", "/", "a">>
PathDB == <<"/", "d", "/", "b">>
PathDC == <<"/", "d", "/", "c">>
PathO == <<"/", "o">>
PathP == <<"/", "p">>

\* base URLs given to the checkers: both schemes, two hosts, paths with and
\* without a trailing slash
BaseUrls ==
    { Url(s, n, p) : s \in {"http", "https"}, n \in {"h", "g"},
                     p \in {<<>>, PathRoot, PathD, PathD \o <<"/">>, PathP} }

TextEmpty == <<>>
TextDisallowAll == <<Line("User-agent:", Star), Line("Disallow:", PathRoot)>>
TextDisallowP == <<Line("User-agent:", Star), Line("Disallow:", PathP)>>
TextDisallowDA == <<Line("User-agent:", Star), Line("Disallow:", PathDA)>>
TextDisallowD == <<Line("User-agent:", Star), Line("Disallow:", PathD)>>
TextGroups ==
    <<Line("#", <<>>), Line("User-agent:", <<"b">>), Line("Disallow:", PathD),
      Line("", <<>>), Line("User-agent:", Star), Line("Disallow:", PathP)>>
TextLowerCase == <<Line("user-agent:", Star), Line("disallow:", PathD)>>

Response(kind, text) == [kind |-> kind, text |-> text]

\* answers to the robots.txt request: a body, not found, a server error, and
\* two failures that carry no response
Responses ==
    { Response("200", t) : t \in {TextEmpty, TextDisallowAll, TextDisallowP,
                                  TextDisallowDA, TextGroups, TextLowerCase} }
    \cup { Response(k, <<>>) : k \in {"404", "500", "timeout", "refused"} }

AskPaths == {PathRoot, PathD, PathDA, PathP, PathP \o <<"/", "a">>}
AskAgents == {Star, <<"b">>, <<"c">>}

NotAsked == [who |-> "nobody", path |-> <<>>, user_agent |-> <<>>, answer |-> None]

\* -------------------------------------------------------------- the web site

PageS == Url("http", "h", PathD)
PageA == Url("http", "h", PathDA)
PageB == Url("http", "h", PathDB)
PageC == Url("http", "h", PathDC)
PageO == Url("http", "h", PathO)
\* the seed page addressed with a query string, and A with a query string and
\* with a fragment
PageSQ == [PageS EXCEPT !.query = <<"q">>]
PageAQ == [PageA EXCEPT !.query = <<"q">>]
PageAF == [PageA EXCEPT !.fragment = <<"f">>]

\* ScraperConfig.min_document_length_to_read
MinDocumentLength == 100

\* A site gives, per page, the absolute URLs of its anchors (the urljoin of each
\* href), the length of its readable text and whether loading it raises.
Site(links, short, broken) == [links |-> links, short |-> short, broken |-> broken]

NoLinks == [u \in {} |-> {}]

\* a chain S -> A -> B -> C
SiteChain ==
    Site((PageS :> {PageA}) @@ (PageA :> {PageB}) @@ (PageB :> {PageC}), {}, {})

\* the seed links to four pages, one outside the seed's path
SiteStar ==
    Site((PageS :> {PageA, PageB, PageC, PageO}), {PageB}, {})

\* B is linked from the seed and from A, C from A and from B; B fails to load
SiteDiamond ==
    Site((PageS :> {PageA, PageB}) @@ (PageA :> {PageB, PageC})
            @@ (PageB :> {PageC}),
         {}, {PageB})

\* links back to pages already seen
SiteCycle ==
    Site((PageS :> {PageA}) @@ (PageA :> {PageS, PageB}) @@ (PageB :> {PageA}),
         {PageA}, {})

\* the seed links to two pages below it and to one outside its path; every
\* page has valid text
SiteDocs ==
    Site((PageS :> {PageA, PageB, PageO}), {}, {})

\* the seed is addressed with a query string; its page links to itself without
\* the query string and to A in three spellings
SiteQuery ==
    Site((PageSQ :> {PageS, PageA, PageAQ, PageAF}) @@ (PageS :> {PageA}), {}, {})

Sites == {SiteChain, SiteStar, SiteDiamond, SiteCycle, SiteDocs}

CrawlSeeds == {PageS, PageSQ}

\* the sites crawled from a seed
SitesOf(seed) == IF seed = PageSQ THEN {SiteQuery} ELSE Sites

CrawlResponses ==
    { Response("200", TextEmpty), Response("200", TextDisallowAll),
      Response("200", TextDisallowDA), Response("200", TextDisallowD),
      Response("404", <<>>), Response("500", <<>>),
      Response("timeout", <<>>), Response("refused", <<>>) }

\* bounds of the configurations explored
MaxLinksBound == 3
MaxDepthBound == 1
\* the rate limiter: page loads of the collection phase, pool workers, and how
\* long a thread may be held up before it reads the clock
MaxCollectLoads == 2
MaxWorkers == 2
MaxDelay == 1

\* AppConfig.min_interval_between_requests = 60 / 10
MinInterval == 60 \div 10

\* ThreadPoolExecutor(max_workers=10)
PoolSize == 10

\* ScraperConfig.page_load_sleep
PageLoadSleep == 5

\* time.time() when the session starts: the epoch is long past, and
\* last_request_time starts at 0
StartTime == MinInterval

Max(a, b) == IF a >= b THEN a ELSE b

\* all orders in which list(set(...)) may enumerate S
Orders(S) ==
    { f \in [1..Cardinality(S) -> S] : \A x \in S : \E i \in DOMAIN f : f[i] = x }

\* ----------------------------------------------------------- LinkCollector

\* LinkCollector._is_same_domain_and_path
IsSameDomainAndPath(base, url) ==
    url.netloc = base.netloc /\ StartsWith(url.path, base.path)

\* _normalize_link that clears the fragment and keeps the query
NormalizeLink_KeepQuery(url) == [url EXCEPT !.fragment = <<>>]

\* LinkCollector._normalize_link
NormalizeLink(url) == [url EXCEPT !.query = <<>>, !.fragment = <<>>]

PageLinks(st, url) == IF url \in DOMAIN st.links THEN st.links[url] ELSE {}

\* LinkCollector._get_links after the page was loaded: the set of normalized
\* in-scope links (the empty list when the load raised)
GetLinks(st, base, url) ==
    IF url \in st.broken THEN {}
    ELSE { NormalizeLink(link) : link \in
             { l \in PageLinks(st, url) : IsSameDomainAndPath(base, l) } }

\* LinkCollector._wait_for_next_request, run by one thread alone: the time at
\* which it stamps last_request_time, having read the clock at current_time
WaitForNextRequest(current_time, last) ==
    IF current_time - last < MinInterval
    THEN current_time + (MinInterval - (current_time - last))
    ELSE current_time

\* collect_all_links with no budget on the links it collects
MayCollect_NoLimit(link, visited, collected, limit) ==
    link \notin visited

\* the test of the inner loop of collect_all_links with <= for <
MayCollect_OffByOne(link, visited, collected, limit) ==
    link \notin visited /\ Len(collected) <= limit

\* collect_all_links: the test guarding the two appends
MayCollect(link, visited, collected, limit) ==
    link \notin visited /\ Len(collected) < limit

\* the inner loop putting each new link at the head of the frontier
RECURSIVE AppendLinks_PushFront(_, _, _, _, _, _, _)
AppendLinks_PushFront(new_links, k, depth, visited, to_visit, collected, limit) ==
    IF k > Len(new_links) THEN [to_visit |-> to_visit, collected |-> collected]
    ELSE IF MayCollect(new_links[k], visited, collected, limit)
    THEN AppendLinks_PushFront(new_links, k + 1, depth, visited,
                               << <<new_links[k], depth + 1>> >> \o to_visit,
                               Append(collected, new_links[k]), limit)
    ELSE AppendLinks_PushFront(new_links, k + 1, depth, visited, to_visit,
                               collected, limit)

\* collect_all_links: the inner loop over new_links from position k on
RECURSIVE AppendLinks(_, _, _, _, _, _, _)
AppendLinks(new_links, k, depth, visited, to_visit, collected, limit) ==
    IF k > Len(new_links) THEN [to_visit |-> to_visit, collected |-> collected]
    ELSE IF MayCollect(new_links[k], visited, collected, limit)
    THEN AppendLinks(new_links, k + 1, depth, visited,
                     Append(to_visit, <<new_links[k], depth + 1>>),
                     Append(collected, new_links[k]), limit)
    ELSE AppendLinks(new_links, k + 1, depth, visited, to_visit, collected, limit)

Load(url, phase) == [url |-> url, phase |-> phase]

\* ---------------------------------------------------------------- WebScraper

\* the text scrape_page returns: the page it was extracted from and its length
Text(src, length) == [src |-> src, length |-> length]

EmptyText == Text(NoUrl, 0)

\* extract_readable_text(driver.page_source) for the page the driver holds
ReadableText(st, page) ==
    IF page = NoUrl THEN EmptyText
    ELSE IF page \in st.short THEN Text(page, MinDocumentLength)
    ELSE Text(page, MinDocumentLength + 1)

\* _is_valid_document with >= for >
IsValidDocument_AtLeast(document) ==
    document.length # 0 /\ document.length >= MinDocumentLength

\* WebScraper._is_valid_document
IsValidDocument(document) ==
    document.length # 0 /\ document.length > MinDocumentLength

Task(url) == [url |-> url, at |-> "queued", result |-> EmptyText]

Running(t) == t.at \notin {"queued", "done", "consumed"}

\* ------------------------------------------------------------- AppConfig

\* config/config.py AppConfig(requests_per_minute=r): the dataclass stores the
\* argument in its field and every other field keeps its default
AppConfig(requests_per_minute) ==
    [requests_per_minute |-> requests_per_minute,
     min_interval_between_requests |-> MinInterval]

\* no AppConfig constructed (yet)
NoAppConfig == [requests_per_minute |-> 0, min_interval_between_requests |-> 0]

\* the values of requests_per_minute tried: the positive divisors of 60
RequestsPerMinute == { r \in 1..60 : 60 % r = 0 }

\* ------------------------------------------------------------- URL strings
\* A URL string is the sequence of its delimiters ":", "/", "?", "#" and of
\* the chunks between them; a chunk holds no delimiter and no two chunks are
\* adjacent.

Delimiters == {":", "/", "?", "#"}

\* str.find for any of the characters in cs, from position i on: the first
\* position that holds one, Len(s) + 1 when none does
RECURSIVE Find(_, _, _)
Find(s, cs, i) ==
    IF i > Len(s) THEN Len(s) + 1
    ELSE IF s[i] \in cs THEN i
    ELSE Find(s, cs, i + 1)

\* urllib.parse.urlparse: the scheme before the first colon, lower-cased; the
\* netloc after "//" up to the next "/", "?" or "#"; the fragment after the
\* first "#"; the query after the first "?"; the rest is the path.  (No URL
\* here holds ";", so params is always empty and is left out.)
UrlParse(s) ==
    LET has_scheme == Len(s) >= 2 /\ s[1] \notin Delimiters /\ s[2] = ":"
        s1 == IF has_scheme THEN SubSeq(s, 3, Len(s)) ELSE s
        has_netloc == Len(s1) >= 2 /\ s1[1] = "/" /\ s1[2] = "/"
        delim == Find(s1, {"/", "?", "#"}, 3)
        s2 == IF has_netloc THEN SubSeq(s1, delim, Len(s1)) ELSE s1
        hash == Find(s2, {"#"}, 1)
        s3 == SubSeq(s2, 1, hash - 1)
        qmark == Find(s3, {"?"}, 1)
    IN  [scheme |-> IF has_scheme THEN LowerChar(s[1]) ELSE "",
         netloc |-> IF has_netloc THEN SubSeq(s1, 3, delim - 1) ELSE <<>>,
         path |-> SubSeq(s3, 1, qmark - 1),
         query |-> SubSeq(s3, qmark + 1, Len(s3)),
         fragment |-> SubSeq(s2, hash + 1, Len(s2))]

\* the schemes of urllib.parse.uses_netloc that occur here
UsesNetloc == {"http", "https"}

\* urllib.parse.urlunparse
UrlUnparse(u) ==
    LET url1 == IF u.netloc # <<>>
                   \/ (u.scheme \in UsesNetloc
                        /\ ~ StartsWith(u.path, <<"/", "/">>))
                THEN <<"/", "/">> \o u.netloc \o
                     (IF u.path # <<>> /\ u.path[1] # "/"
                      THEN <<"/">> \o u.path ELSE u.path)
                ELSE u.path
        url2 == IF u.scheme # "" THEN <<u.scheme, ":">> \o url1 ELSE url1
        url3 == IF u.query # <<>> THEN url2 \o <<"?">> \o u.query ELSE url2
    IN  IF u.fragment # <<>> THEN url3 \o <<"#">> \o u.fragment ELSE url3

\* LinkCollector._normalize_link of link_collector.py on the URL string
NormalizeLinkString(s) == UrlUnparse(NormalizeLink(UrlParse(s)))

\* LinkCollector._normalize_link of scraping/link_collector.py: the fragment is
\* replaced first, the query second
ScrapingNormalizeLink(s) ==
    LET parsed_url == UrlParse(s)
        normalized_url == [parsed_url EXCEPT !.fragment = <<>>]
    IN  UrlUnparse([normalized_url EXCEPT !.query = <<>>])

\* The URLs given to _normalize_link, as the pieces they are written from:
\* scheme with its colon, "//" with the host, path, "?" with the query, "#"
\* with the fragment.
UrlSchemes == { <<>>, <<"http", ":">>, <<"https", ":">>, <<"HTTP", ":">> }
UrlHosts == { <<>>, <<"/", "/", "x">>, <<"/", "/", "x", ":", "80">> }
UrlPaths == { <<>>, <<"/">>, <<"/", "a">>, <<"/", "a", "/">> }
UrlQueries == { <<>>, <<"?">>, <<"?", "q">>, <<"?", "q", "/", "r">> }
UrlFragments == { <<>>, <<"#">>, <<"#", "f">>, <<"#", "f", "?", "q">> }

Pieces(scheme, host, path, query, fragment) ==
    [scheme |-> scheme, host |-> host, path |-> path, query |-> query,
     fragment |-> fragment]

Urls ==
    { Pieces(s, h, p, q, f) : s \in UrlSchemes, h \in UrlHosts, p \in UrlPaths,
                              q \in UrlQueries, f \in UrlFragments }

\* no URL given
NoPieces == Pieces(<<>>, <<>>, <<>>, <<>>, <<>>)

\* the URL string as written
UrlString(u) == u.scheme \o u.host \o u.path \o u.query \o u.fragment

NotNormalized == [called |-> FALSE, link |-> <<>>]
Normalized(link) == [called |-> TRUE, link |-> link]

\* ---------------------------------------------------- extract_readable_text

\* str.strip()
RECURSIVE Strip(_)
Strip(s) ==
    IF s # <<>> /\ s[1] = " " THEN Strip(Tail(s))
    ELSE IF s # <<>> /\ s[Len(s)] = " " THEN Strip(SubSeq(s, 1, Len(s) - 1))
    ELSE s

\* What the two library stages do with a page: Document(html).summary()
\* raises or returns, trafilatura.extract raises, returns None or returns a
\* string.
Html(summary, extract, text) ==
    [summary |-> summary, extract |-> extract, text |-> text]

Htmls ==
    { Html("Unparseable", "str", <<"t">>), Html("ok", "ParserError", <<>>),
      Html("ok", "None", <<>>) }
    \cup { Html("ok", "str", t) :
             t \in { <<>>, <<" ">>, <<"t">>, <<" ", "t", " ", "u", " ">> } }

\* no page given
NoHtml == Html("none", "none", <<>>)

\* how a call ended: the exception it raised (None: it returned) and the text
\* it returned
Outcome(exc, text) == [exc |-> exc, text |-> text]

NotCalled == Outcome("not called", <<>>)

\* a handler that names the errors of the two libraries only
ExceptException_LibraryErrors(out) ==
    IF out.exc \in {"Unparseable", "ParserError"} THEN Outcome(None, <<>>)
    ELSE out

\* except Exception as e: logging.error(...); return ""
ExceptException(out) ==
    IF out.exc # None THEN Outcome(None, <<>>) ELSE out

\* the two library calls at the head of both extract_readable_text bodies
ReadableTextOf(h) ==
    IF h.summary # "ok" THEN Outcome(h.summary, <<>>)
    ELSE IF h.extract \notin {"str", "None"} THEN Outcome(h.extract, <<>>)
    ELSE Outcome(None, h.text)

\* utils.py extract_readable_text:
\*   return readable_text.strip() if readable_text else ""
ExtractReadableText(h) ==
    LET stages == ReadableTextOf(h)
        body == IF stages.exc # None THEN stages
                ELSE IF h.extract = "None" \/ stages.text = <<>>
                THEN Outcome(None, <<>>)
                ELSE Outcome(None, Strip(stages.text))
    IN  ExceptException(body)

\* scraping/text_extractor.py extract_readable_text:
\*   return readable_text.strip()
\* which raises AttributeError on None, inside the try
ScrapingExtractReadableText(h) ==
    LET stages == ReadableTextOf(h)
        body == IF stages.exc # None THEN stages
                ELSE IF h.extract = "None" THEN Outcome("AttributeError", <<>>)
                ELSE Outcome(None, Strip(stages.text))
    IN  ExceptException(body)

NotExtracted == [utils |-> NotCalled, scraping |-> NotCalled]

\* start_scraping of main.py has not been called
MainIdle ==
    /\ st_url = NoPieces
    /\ error_mes = ""
    /\ scraping_done = FALSE
    /\ network = <<>>
    /\ main_pc = "idle"

\* no WebScraper of scraping/scraper.py exists
RecursiveIdle ==
    /\ lock = 0
    /\ stamps = <<>>
    /\ stack = <<>>

ToolsIdle ==
    /\ app_config = NoAppConfig
    /\ given_url = NoPieces
    /\ normalized = [link_collector |-> NotNormalized, scraping |-> NotNormalized]
    /\ html = NoHtml
    /\ readable_text = NotExtracted

\* ------------------------------------------- the Playwright scraper's calls

\* The call of scrape that raises in a run, and the Playwright exception it
\* raises (TimeoutError is a subclass of playwright.sync_api.Error).
Fault(at, exc) == [at |-> at, exc |-> exc]

NoFault == Fault("none", None)

PlaywrightCalls ==
    {"launch", "new_page", "goto", "content", "page.close", "browser.close"}

Faults ==
    {NoFault} \cup
    { Fault(at, exc) : at \in PlaywrightCalls,
                       exc \in {"PlaywrightError", "TimeoutError"} }

\* _setup_browser: except PlaywrightError -> raise BrowserLaunchError
SetupBrowserExcept(exc) ==
    IF exc \in {"PlaywrightError", "TimeoutError"} THEN "BrowserLaunchError"
    ELSE exc

\* scrape: except PageScrapingError, which is neither a base class of the
\* Playwright errors nor of BrowserLaunchError
ExceptPageScrapingError(exc) ==
    IF exc = "PageScrapingError" THEN None ELSE exc

PlaywrightIdle ==
    /\ fault = NoFault
    /\ pw_pc = "idle"
    /\ browser = "none"
    /\ pw_page = "none"
    /\ pw_documents = <<>>
    /\ pw_result = "none"

\* ====================================================== the crawl session
\* WebScraper.scrape of scraper.py: robots_checker.fetch, collect_all_links,
\* _scrape_links with its pool of scrape_page workers, driver.quit.
\*
\* Time is left out of the session: _wait_for_next_request delays its caller
\* and touches only last_request_time, which nothing else of the crawl reads.
\* Its steps, with the clock, are the rate limiter's specification SpecRate.

NoDriverPage == [page |-> NoUrl, quits |-> 0]

RateIdle ==
    /\ now = StartTime
    /\ last_request_time = 0
    /\ callers = <<>>
    /\ starts = EmptyBag

RobotsIdle ==
    /\ content = NoContent
    /\ fetched2 = "no"
    /\ requested2 = NoUrl
    /\ asked = NotAsked

Init ==
    /\ MainIdle
    /\ RecursiveIdle
    /\ base_url \in CrawlSeeds
    /\ response \in CrawlResponses
    /\ robots_url = CreateRobotsUrl(base_url)
    /\ rules = EmptyRules
    /\ fetched = "no"
    /\ requested = NoUrl
    /\ RobotsIdle
    /\ site \in SitesOf(base_url)
    /\ max_links \in (1..MaxLinksBound) \cup {5}
    /\ scraping_depth \in 0..MaxDepthBound
    /\ pc = "fetch_robots"
    /\ lc_visited_urls = {}
    /\ links_to_visit = <<>>
    /\ collected_links = <<>>
    /\ visited_urls = {}
    /\ documents = <<>>
    /\ tasks = <<>>
    /\ driver = NoDriverPage
    /\ loads = EmptyBag
    /\ pushed = {}
    /\ RateIdle
    /\ ToolsIdle
    /\ PlaywrightIdle

\* scrape: self.robots_checker.fetch(); an exception goes to the except clause
\* of scrape and from there to the finally clause
ScrapeFetchRobots ==
    /\ pc = "fetch_robots"
    /\ LET out == SafeRun(FetchBody(response, rules)) IN
        /\ requested' = robots_url
        /\ rules' = out.rules
        /\ fetched' = IF out.exc = None THEN "returned" ELSE "raised"
        /\ pc' = IF out.exc = None THEN "collect_all_links" ELSE "finally"
    /\ UNCHANGED <<idleVars, base_url, response, robots_url, content, fetched2, requested2,
                   asked, site, max_links, scraping_depth, lc_visited_urls,
                   links_to_visit, collected_links, visited_urls, documents,
                   tasks, driver, loads, pushed, rateVars>>

\* collect_all_links: collected_links = [], links_to_visit = [(base_url, 0)]
CollectStart ==
    /\ pc = "collect_all_links"
    /\ collected_links' = <<>>
    /\ links_to_visit' = << <<base_url, 0>> >>
    /\ pushed' = pushed \cup { <<base_url, 0>> }
    /\ pc' = "collect_loop"
    /\ UNCHANGED <<idleVars, robotsVars, rateVars, site, max_links, scraping_depth,
                   lc_visited_urls, visited_urls, documents, tasks, driver, loads>>

\* collect_all_links: one iteration of the while loop that skips the entry
CollectSkip ==
    /\ pc = "collect_loop"
    /\ links_to_visit # <<>> /\ Len(collected_links) < max_links
    /\ LET current_url == Head(links_to_visit)[1]
           depth == Head(links_to_visit)[2]
       IN  current_url \in lc_visited_urls \/ depth > scraping_depth
    /\ links_to_visit' = Tail(links_to_visit)
    /\ UNCHANGED <<idleVars, robotsVars, rateVars, site, max_links, scraping_depth, pc,
                   lc_visited_urls, collected_links, visited_urls, documents,
                   tasks, driver, loads, pushed>>

\* collect_all_links: one iteration of the while loop that visits the entry:
\* _get_links waits for its slot, loads the page and returns its links in the
\* order of list(set(...)), and the inner loop appends them
CollectVisit ==
    /\ pc = "collect_loop"
    /\ links_to_visit # <<>> /\ Len(collected_links) < max_links
    /\ LET current_url == Head(links_to_visit)[1]
           depth == Head(links_to_visit)[2]
       IN
        /\ ~ (current_url \in lc_visited_urls \/ depth > scraping_depth)
        /\ lc_visited_urls' = lc_visited_urls \cup {current_url}
        /\ loads' = loads (+) SetToBag({Load(current_url, "collect")})
        /\ driver' = IF current_url \in site.broken THEN driver
                     ELSE [driver EXCEPT !.page = current_url]
        /\ \E new_links \in Orders(GetLinks(site, base_url, current_url)) :
            LET r == AppendLinks(new_links, 1, depth, lc_visited_urls',
                                 Tail(links_to_visit), collected_links, max_links)
            IN  /\ links_to_visit' = r.to_visit
                /\ collected_links' = r.collected
                /\ pushed' = pushed \cup
                      { r.to_visit[i] : i \in (Len(links_to_visit))..Len(r.to_visit) }
    /\ UNCHANGED <<idleVars, robotsVars, rateVars, site, max_links, scraping_depth, pc,
                   visited_urls, documents, tasks>>

\* collect_all_links returns; _scrape_links submits scrape_page for every link
CollectReturn ==
    /\ pc = "collect_loop"
    /\ ~ (links_to_visit # <<>> /\ Len(collected_links) < max_links)
    /\ tasks' = [i \in 1..Len(collected_links) |-> Task(collected_links[i])]
    /\ pc' = "scrape_links"
    /\ UNCHANGED <<idleVars, robotsVars, rateVars, site, max_links, scraping_depth,
                   lc_visited_urls, links_to_visit, collected_links, visited_urls,
                   documents, driver, loads, pushed>>

\* ---- scrape_page(url) in pool worker i, one step per shared-state access

crawlFixed == <<site, max_links, scraping_depth, lc_visited_urls, links_to_visit,
                collected_links, pushed>>

\* a worker takes the task from the queue; scrape_page tests scope and
\* membership in visited_urls
ScrapePageCheck(i) ==
    /\ pc = "scrape_links"
    /\ tasks[i].at = "queued"
    /\ Cardinality({ j \in DOMAIN tasks : Running(tasks[j]) }) < PoolSize
    /\ tasks' = [tasks EXCEPT ![i].at =
                    IF ~ IsSameDomainAndPath(base_url, tasks[i].url)
                       \/ tasks[i].url \in visited_urls
                    THEN "done" ELSE "add"]
    /\ UNCHANGED <<idleVars, robotsVars, rateVars, crawlFixed, pc, visited_urls, documents,
                   driver, loads>>

\* self.visited_urls.add(url), then the robots test on the path of url; an
\* allowed url goes on to _wait_for_next_request and, after it, to driver.get
ScrapePageAdd(i) ==
    /\ pc = "scrape_links"
    /\ tasks[i].at = "add"
    /\ visited_urls' = visited_urls \cup {tasks[i].url}
    /\ tasks' = [tasks EXCEPT ![i].at =
                    IF IsAllowed(rules, tasks[i].url.path, Star)
                    THEN "get" ELSE "done"]
    /\ UNCHANGED <<idleVars, robotsVars, rateVars, crawlFixed, pc, documents, driver, loads>>

\* driver.get that loads every page, the failing ones too
DriverGet_NeverRaises(i) ==
    /\ pc = "scrape_links"
    /\ tasks[i].at = "get"
    /\ loads' = loads (+) SetToBag({Load(tasks[i].url, "scrape")})
    /\ tasks' = [tasks EXCEPT ![i].at = "source"]
    /\ driver' = [driver EXCEPT !.page = tasks[i].url]
    /\ UNCHANGED <<idleVars, robotsVars, rateVars, crawlFixed, pc,
                   visited_urls, documents>>

\* self.driver.get(url): the shared driver now holds the page, unless the load
\* raised, and then scrape_page returns ""
DriverGet(i) ==
    /\ pc = "scrape_links"
    /\ tasks[i].at = "get"
    /\ loads' = loads (+) SetToBag({Load(tasks[i].url, "scrape")})
    /\ IF tasks[i].url \in site.broken
       THEN /\ tasks' = [tasks EXCEPT ![i].at = "done"]
            /\ UNCHANGED driver
       ELSE /\ tasks' = [tasks EXCEPT ![i].at = "source"]
            /\ driver' = [driver EXCEPT !.page = tasks[i].url]
    /\ UNCHANGED <<idleVars, robotsVars, rateVars, crawlFixed, pc, visited_urls, documents>>

\* page_source = self.driver.page_source; the readable text of it is returned
PageSource(i) ==
    /\ pc = "scrape_links"
    /\ tasks[i].at = "source"
    /\ tasks' = [tasks EXCEPT ![i].at = "done",
                              ![i].result = ReadableText(site, driver.page)]
    /\ UNCHANGED <<idleVars, robotsVars, rateVars, crawlFixed, pc, visited_urls, documents,
                   driver, loads>>

\* _scrape_links: the as_completed loop takes a finished future and appends
\* its document when it is valid
AsCompleted(i) ==
    /\ pc = "scrape_links"
    /\ tasks[i].at = "done"
    /\ tasks' = [tasks EXCEPT ![i].at = "consumed"]
    /\ documents' = IF IsValidDocument(tasks[i].result)
                    THEN Append(documents, tasks[i].result) ELSE documents
    /\ UNCHANGED <<idleVars, robotsVars, rateVars, crawlFixed, pc, visited_urls, driver,
                   loads>>

\* _scrape_links returning without waiting for its workers
ScrapeLinksReturn_NoWait ==
    /\ pc = "scrape_links"
    /\ pc' = "finally"
    /\ UNCHANGED <<idleVars, robotsVars, rateVars, crawlFixed, visited_urls,
                   documents, tasks, driver, loads>>

\* _scrape_links returns once every future was taken and the pool has shut down
ScrapeLinksReturn ==
    /\ pc = "scrape_links"
    /\ \A i \in DOMAIN tasks : tasks[i].at = "consumed"
    /\ pc' = "finally"
    /\ UNCHANGED <<idleVars, robotsVars, rateVars, crawlFixed, visited_urls, documents,
                   tasks, driver, loads>>

\* scrape: finally: self.driver.quit(); return self.documents
DriverQuit ==
    /\ pc = "finally"
    /\ driver' = [driver EXCEPT !.quits = @ + 1]
    /\ pc' = "done"
    /\ UNCHANGED <<idleVars, robotsVars, rateVars, crawlFixed, visited_urls, documents,
                   tasks, loads>>

Next ==
    \/ ScrapeFetchRobots
    \/ CollectStart
    \/ CollectSkip
    \/ CollectVisit
    \/ CollectReturn
    \/ \E i \in DOMAIN tasks : ScrapePageCheck(i)
    \/ \E i \in DOMAIN tasks : ScrapePageAdd(i)
    \/ \E i \in DOMAIN tasks : DriverGet(i)
    \/ \E i \in DOMAIN tasks : PageSource(i)
    \/ \E i \in DOMAIN tasks : AsCompleted(i)
    \/ ScrapeLinksReturn
    \/ DriverQuit

Spec == Init /\ [][Next]_vars

\* The session up to the return of collect_all_links.  The loop runs in the
\* one thread that called scrape, which takes its next step whenever it has one.
NextCollect ==
    \/ ScrapeFetchRobots
    \/ CollectStart
    \/ CollectSkip
    \/ CollectVisit
    \/ CollectReturn

SpecCollect == Init /\ [][NextCollect]_vars /\ WF_vars(NextCollect)

\* ================================================= the robots.txt checkers
\* One RobotsTxtChecker of robots.py and one of scraping/robots.py, built for
\* the same base_url and given the same answer by the server.

CrawlIdle ==
    /\ site = Site(NoLinks, {}, {})
    /\ max_links = 0
    /\ scraping_depth = 0
    /\ pc = "idle"
    /\ lc_visited_urls = {}
    /\ links_to_visit = <<>>
    /\ collected_links = <<>>
    /\ visited_urls = {}
    /\ documents = <<>>
    /\ tasks = <<>>
    /\ driver = NoDriverPage
    /\ loads = EmptyBag
    /\ pushed = {}

InitRobots ==
    /\ MainIdle
    /\ RecursiveIdle
    /\ base_url \in BaseUrls
    /\ response \in Responses
    /\ robots_url = CreateRobotsUrl(base_url)
    /\ rules = EmptyRules
    /\ fetched = "no"
    /\ requested = NoUrl
    /\ content = NoContent
    /\ fetched2 = "no"
    /\ requested2 = NoUrl
    /\ asked = NotAsked
    /\ CrawlIdle
    /\ RateIdle
    /\ ToolsIdle
    /\ PlaywrightIdle

\* robots.py RobotsTxtChecker.fetch, as decorated
RobotsFetch ==
    /\ fetched = "no"
    /\ LET out == SafeRun(FetchBody(response, rules)) IN
        /\ requested' = robots_url
        /\ rules' = out.rules
        /\ fetched' = IF out.exc = None THEN "returned" ELSE "raised"
    /\ UNCHANGED <<idleVars, base_url, response, robots_url, content, fetched2, requested2,
                   asked, crawlVars, rateVars>>

\* scraping/robots.py RobotsTxtChecker.fetch
ScrapingRobotsFetch ==
    /\ fetched2 = "no"
    /\ LET out == ScrapingFetch(response, content) IN
        /\ requested2' = ScrapingRobotsUrl(base_url)
        /\ content' = out.content
        /\ fetched2' = IF out.exc = None THEN "returned" ELSE "raised"
    /\ UNCHANGED <<idleVars, base_url, response, robots_url, rules, fetched, requested,
                   asked, crawlVars, rateVars>>

\* robots.py RobotsTxtChecker.is_allowed(path, user_agent)
RobotsIsAllowed ==
    /\ \E path \in AskPaths, user_agent \in AskAgents :
        asked' = [who |-> "robots.py", path |-> path, user_agent |-> user_agent,
                  answer |-> IF IsAllowed(rules, path, user_agent)
                             THEN "True" ELSE "False"]
    /\ UNCHANGED <<idleVars, base_url, response, robots_url, rules, fetched, requested,
                   content, fetched2, requested2, crawlVars, rateVars>>

\* scraping/robots.py RobotsTxtChecker.is_allowed(x): callers pass a user agent
\* (the default "*") or, as the crawlers do, the path of a URL
ScrapingRobotsIsAllowed ==
    /\ \E x \in AskPaths \cup AskAgents :
        asked' = [who |-> "scraping/robots.py", path |-> <<>>, user_agent |-> x,
                  answer |-> ScrapingIsAllowed(base_url, content, x)]
    /\ UNCHANGED <<idleVars, base_url, response, robots_url, rules, fetched, requested,
                   content, fetched2, requested2, crawlVars, rateVars>>

NextRobots ==
    \/ RobotsFetch
    \/ ScrapingRobotsFetch
    \/ RobotsIsAllowed
    \/ ScrapingRobotsIsAllowed

SpecRobots == InitRobots /\ [][NextRobots]_vars

\* ========================================================= the rate limiter
\* LinkCollector._wait_for_next_request as the session calls it: first by
\* _get_links, one call after the other in the collection phase, then by the
\* scrape_page workers of the pool, each before its driver.get.  No lock is
\* taken, so a worker's steps interleave with the other workers' steps.

Caller == [at |-> "wait", wake |-> 0]

InitRate ==
    /\ MainIdle
    /\ RecursiveIdle
    /\ RateIdle
    /\ CrawlIdle
    /\ base_url = PageS
    /\ response = Response("404", <<>>)
    /\ robots_url = CreateRobotsUrl(base_url)
    /\ rules = EmptyRules
    /\ fetched = "no"
    /\ requested = NoUrl
    /\ RobotsIdle
    /\ ToolsIdle
    /\ PlaywrightIdle

rateFixed == <<robotsVars, crawlVars>>

\* _get_links in the collection phase: _wait_for_next_request, driver.get, and
\* time.sleep(page_load_sleep) before the page is parsed
GetLinksLoad ==
    /\ callers = <<>>
    /\ BagCardinality(starts) < MaxCollectLoads
    /\ \E d \in 0..MaxDelay :
        LET stamp == WaitForNextRequest(now + d, last_request_time) IN
            /\ now' = stamp + PageLoadSleep
            /\ last_request_time' = stamp
            /\ starts' = starts (+) SetToBag({stamp})
    /\ UNCHANGED <<idleVars, rateFixed, callers>>

\* the collection phase has loaded the seed at least; the pool starts n workers
PoolStart ==
    /\ callers = <<>>
    /\ BagCardinality(starts) >= 1
    /\ \E n \in 1..MaxWorkers : callers' = [i \in 1..n |-> Caller]
    /\ UNCHANGED <<idleVars, rateFixed, now, last_request_time, starts>>

\* current_time = time.time(); time_since_last_request is computed from
\* last_request_time; the thread goes to sleep or straight to the stamp
WaitRead(i) ==
    /\ callers[i].at = "wait"
    /\ \E d \in 0..MaxDelay :
        /\ now' = now + d
        /\ callers' = [callers EXCEPT
                ![i].at = IF now' - last_request_time < MinInterval
                          THEN "sleep" ELSE "stamp",
                ![i].wake = IF now' - last_request_time < MinInterval
                            THEN WaitForNextRequest(now', last_request_time)
                            ELSE 0]
    /\ UNCHANGED <<idleVars, rateFixed, last_request_time, starts>>

\* time.sleep(wait_time) returns
WaitSleep(i) ==
    /\ callers[i].at = "sleep"
    /\ now' = Max(now, callers[i].wake)
    /\ callers' = [callers EXCEPT ![i].at = "stamp", ![i].wake = 0]
    /\ UNCHANGED <<idleVars, rateFixed, last_request_time, starts>>

\* self.last_request_time = time.time()
WaitStamp(i) ==
    /\ callers[i].at = "stamp"
    /\ \E d \in 0..MaxDelay :
        /\ now' = now + d
        /\ last_request_time' = now'
    /\ callers' = [callers EXCEPT ![i].at = "get"]
    /\ UNCHANGED <<idleVars, rateFixed, starts>>

\* scrape_page: self.driver.get(url) starts
GetStart(i) ==
    /\ callers[i].at = "get"
    /\ starts' = starts (+) SetToBag({now})
    /\ callers' = [callers EXCEPT ![i].at = "done"]
    /\ UNCHANGED <<idleVars, rateFixed, now, last_request_time>>

NextRate ==
    \/ GetLinksLoad
    \/ PoolStart
    \/ \E i \in DOMAIN callers : WaitRead(i)
    \/ \E i \in DOMAIN callers : WaitSleep(i)
    \/ \E i \in DOMAIN callers : WaitStamp(i)
    \/ \E i \in DOMAIN callers : GetStart(i)

SpecRate == InitRate /\ [][NextRate]_vars

\* ================================================ functions on an input
\* AppConfig, the two _normalize_link and the two extract_readable_text, each
\* applied to an input.

\* no crawler of any kind runs
NoSession ==
    /\ base_url = NoUrl
    /\ response = Response("404", <<>>)
    /\ robots_url = NoUrl
    /\ rules = EmptyRules
    /\ fetched = "no"
    /\ requested = NoUrl
    /\ RobotsIdle
    /\ CrawlIdle
    /\ RateIdle

InitTools ==
    /\ MainIdle
    /\ RecursiveIdle
    /\ app_config = NoAppConfig
    /\ \/ given_url \in Urls /\ html = NoHtml
       \/ given_url = NoPieces /\ html \in Htmls
    /\ normalized = [link_collector |-> NotNormalized, scraping |-> NotNormalized]
    /\ readable_text = NotExtracted
    /\ PlaywrightIdle
    /\ NoSession

toolsFixed ==
    <<robotsVars, crawlVars, rateVars, pwVars, mainVars, lockVars, stack>>

\* AppConfig(requests_per_minute=r)
ConstructAppConfig ==
    /\ app_config = NoAppConfig
    /\ \E r \in RequestsPerMinute : app_config' = AppConfig(r)
    /\ UNCHANGED <<toolsFixed, given_url, normalized, html, readable_text>>

\* link_collector.py: self._normalize_link(url)
CallNormalizeLink ==
    /\ given_url # NoPieces
    /\ ~ normalized.link_collector.called
    /\ normalized' = [normalized EXCEPT
            !.link_collector =
                Normalized(NormalizeLinkString(UrlString(given_url)))]
    /\ UNCHANGED <<toolsFixed, app_config, given_url, html, readable_text>>

\* scraping/link_collector.py: self._normalize_link(url)
CallScrapingNormalizeLink ==
    /\ given_url # NoPieces
    /\ ~ normalized.scraping.called
    /\ normalized' = [normalized EXCEPT
            !.scraping =
                Normalized(ScrapingNormalizeLink(UrlString(given_url)))]
    /\ UNCHANGED <<toolsFixed, app_config, given_url, html, readable_text>>

\* utils.py: extract_readable_text(html)
CallExtractReadableText ==
    /\ html # NoHtml
    /\ readable_text.utils = NotCalled
    /\ readable_text' = [readable_text EXCEPT !.utils = ExtractReadableText(html)]
    /\ UNCHANGED <<toolsFixed, app_config, given_url, normalized, html>>

\* scraping/text_extractor.py: extract_readable_text(html)
CallScrapingExtractReadableText ==
    /\ html # NoHtml
    /\ readable_text.scraping = NotCalled
    /\ readable_text' = [readable_text EXCEPT
            !.scraping = ScrapingExtractReadableText(html)]
    /\ UNCHANGED <<toolsFixed, app_config, given_url, normalized, html>>

NextTools ==
    \/ ConstructAppConfig
    \/ CallNormalizeLink
    \/ CallScrapingNormalizeLink
    \/ CallExtractReadableText
    \/ CallScrapingExtractReadableText

SpecTools == InitTools /\ [][NextTools]_vars

\* ================================================== the Playwright scraper
\* WebScraper.scrape of scraping/web_scraper.py, one step per call that may
\* raise.  An exception raised inside the try goes to the except clause, which
\* names PageScrapingError only; there is no finally clause.

InitPlaywright ==
    /\ MainIdle
    /\ RecursiveIdle
    /\ fault \in Faults
    /\ html \in Htmls
    /\ pw_pc = "setup_browser"
    /\ browser = "none"
    /\ pw_page = "none"
    /\ pw_documents = <<>>
    /\ pw_result = "running"
    /\ app_config = NoAppConfig
    /\ given_url = NoPieces
    /\ normalized = [link_collector |-> NotNormalized, scraping |-> NotNormalized]
    /\ readable_text = NotExtracted
    /\ NoSession

pwFixed ==
    <<robotsVars, crawlVars, rateVars, app_config, given_url, normalized,
      mainVars, lockVars, stack>>

\* the exception exc is raised inside the try of scrape: the except clause
\* takes it or it propagates to the caller
Raise(exc) ==
    IF ExceptPageScrapingError(exc) = None
    THEN pw_pc' = "return" /\ UNCHANGED pw_result
    ELSE pw_pc' = "exit" /\ pw_result' = exc

\* browser = self._setup_browser()
SetupBrowser ==
    /\ pw_pc = "setup_browser"
    /\ IF fault.at = "launch"
       THEN Raise(SetupBrowserExcept(fault.exc)) /\ UNCHANGED browser
       ELSE browser' = "open" /\ pw_pc' = "new_page" /\ UNCHANGED pw_result
    /\ UNCHANGED <<pwFixed, fault, html, readable_text, pw_page, pw_documents>>

\* page = browser.new_page()
NewPage ==
    /\ pw_pc = "new_page"
    /\ IF fault.at = "new_page"
       THEN Raise(fault.exc) /\ UNCHANGED pw_page
       ELSE pw_page' = "open" /\ pw_pc' = "goto" /\ UNCHANGED pw_result
    /\ UNCHANGED <<pwFixed, fault, html, readable_text, browser, pw_documents>>

\* page.goto(self.url); time.sleep(page_load_sleep)
Goto ==
    /\ pw_pc = "goto"
    /\ IF fault.at = "goto"
       THEN Raise(fault.exc)
       ELSE pw_pc' = "content" /\ UNCHANGED pw_result
    /\ UNCHANGED <<pwFixed, fault, html, readable_text, browser, pw_page,
                   pw_documents>>

\* page_source = page.content()
PageContent ==
    /\ pw_pc = "content"
    /\ IF fault.at = "content"
       THEN Raise(fault.exc)
       ELSE pw_pc' = "parse_page" /\ UNCHANGED pw_result
    /\ UNCHANGED <<pwFixed, fault, html, readable_text, browser, pw_page,
                   pw_documents>>

\* self._parse_page(page_source): the text is appended when it is not empty
ParsePage ==
    /\ pw_pc = "parse_page"
    /\ LET out == ExtractReadableText(html) IN
        /\ readable_text' = [readable_text EXCEPT !.utils = out]
        /\ IF out.exc # None
           THEN Raise(out.exc) /\ UNCHANGED pw_documents
           ELSE /\ pw_documents' = IF out.text # <<>>
                                   THEN Append(pw_documents, out.text)
                                   ELSE pw_documents
                /\ pw_pc' = "page.close"
                /\ UNCHANGED pw_result
    /\ UNCHANGED <<pwFixed, fault, html, browser, pw_page>>

\* page.close()
PageClose ==
    /\ pw_pc = "page.close"
    /\ IF fault.at = "page.close"
       THEN Raise(fault.exc) /\ UNCHANGED pw_page
       ELSE pw_page' = "closed" /\ pw_pc' = "browser.close" /\ UNCHANGED pw_result
    /\ UNCHANGED <<pwFixed, fault, html, readable_text, browser, pw_documents>>

\* browser.close()
BrowserClose ==
    /\ pw_pc = "browser.close"
    /\ IF fault.at = "browser.close"
       THEN Raise(fault.exc) /\ UNCHANGED browser
       ELSE browser' = "closed" /\ pw_pc' = "return" /\ UNCHANGED pw_result
    /\ UNCHANGED <<pwFixed, fault, html, readable_text, pw_page, pw_documents>>

\* return self.documents
Return ==
    /\ pw_pc = "return"
    /\ pw_pc' = "exit"
    /\ pw_result' = "returned"
    /\ UNCHANGED <<pwFixed, fault, html, readable_text, browser, pw_page,
                   pw_documents>>

NextPlaywright ==
    \/ SetupBrowser
    \/ NewPage
    \/ Goto
    \/ PageContent
    \/ ParsePage
    \/ PageClose
    \/ BrowserClose
    \/ Return

SpecPlaywright == InitPlaywright /\ [][NextPlaywright]_vars

\* ================================================================== claims

LoadedUrls == { l.url : l \in BagToSet(loads) }

\* C1: over the whole session (link collection and page scraping together)
\* driver.get is invoked at most once per URL.
C1_EveryUrlLoadedAtMostOnce ==
    \A l \in BagToSet(loads) :
        /\ CopiesIn(l, loads) = 1
        /\ \A m \in BagToSet(loads) : m.url = l.url => m = l

\* C2: the set of distinct URLs passed to driver.get during one session has at
\* most max_links elements.
C2_AtMostMaxLinksDistinctLoads ==
    Cardinality(LoadedUrls) <= max_links

\* C3: every URL passed to driver.get was put on the frontier with a depth of
\* at most scraping_depth.
C3_LoadedOnlyWithinDepth ==
    \A u \in LoadedUrls :
        \E e \in pushed : e[1] = u /\ e[2] <= scraping_depth

DisallowedForAll(rs, path) ==
    \E k \in 1..Len(RulesGet(rs, Star)) : StartsWith(path, RulesGet(rs, Star)[k])

\* C4: once robots.txt was fetched and parsed, no driver.get is issued for a URL
\* whose path starts with a Disallow prefix of the "*" group; with
\* "User-agent: *, Disallow: /" the session loads no page and collects no document.
C4_NoLoadOfDisallowedPath ==
    (response.kind = "200" /\ fetched = "returned") =>
        /\ \A u \in LoadedUrls : ~ DisallowedForAll(rules, u.path)
        /\ response.text = TextDisallowAll =>
                (loads = EmptyBag /\ documents = <<>>)

\* C5: any two page loads of the session start at least
\* min_interval_between_requests apart, under every interleaving of the workers.
C5_LoadsStartMinIntervalApart ==
    \A t \in BagToSet(starts) :
        /\ CopiesIn(t, starts) = 1
        /\ \A u \in BagToSet(starts) :
              u # t => (u - t >= MinInterval \/ t - u >= MinInterval)

\* C6: len(documents) <= max_links in every reachable state of the session,
\* the returned list included.
C6_DocumentsWithinMaxLinks ==
    Len(documents) <= max_links

\* C6 witness: the session has returned exactly max_links documents from a seed
\* that exposes more in-scope links than max_links.
C6_Witness ==
    /\ pc = "done"
    /\ Len(documents) = max_links
    /\ Cardinality(GetLinks(site, base_url, base_url)) > max_links

RobotsTxtUrl(base) == Url(base.scheme, base.netloc, RobotsTxtPath)

\* C7: both checkers request exactly <scheme>://<host>/robots.txt: the scheme of
\* base_url is kept and no part of its path appears.
C7_RequestsSchemeHostRobotsTxt ==
    /\ fetched # "no" => requested = RobotsTxtUrl(base_url)
    /\ fetched2 # "no" => requested2 = RobotsTxtUrl(base_url)

\* C8: is_allowed(path, ua) of robots.py is False when path starts with a
\* Disallow prefix of ua's own group, or, ua having no group, with a Disallow
\* prefix of the "*" group; it is True only when no applicable group matches.
C8_IsAllowedFallsBackToStar ==
    asked.who = "robots.py" =>
        LET applicable == IF asked.user_agent \in DOMAIN rules
                          THEN rules[asked.user_agent]
                          ELSE RulesGet(rules, Star)
            matches == \E k \in 1..Len(applicable) :
                            StartsWith(asked.path, applicable[k])
        IN  asked.answer = IF matches THEN "False" ELSE "True"

\* C9: when the robots.txt request answers 404, fetch returns normally and
\* afterwards is_allowed returns True for every path and user agent, in both
\* checkers.
C9_NotFoundAllowsAll ==
    response.kind = "404" =>
        /\ fetched # "no" =>
            /\ fetched = "returned"
            /\ \A path \in AskPaths, user_agent \in AskAgents :
                    IsAllowed(rules, path, user_agent)
        /\ fetched2 # "no" =>
            /\ fetched2 = "returned"
            /\ \A x \in AskPaths \cup AskAgents :
                    ScrapingIsAllowed(base_url, content, x) = "True"

\* C9 witness: both checkers have fetched against a 404 and is_allowed has
\* answered True.
C9_Witness ==
    /\ response.kind = "404"
    /\ fetched = "returned"
    /\ fetched2 = "returned"
    /\ asked.who = "scraping/robots.py"
    /\ asked.answer = "True"
    /\ base_url.path = PathP

\* C10: when the robots.txt request fails for a reason other than 404, fetch
\* signals an error to its caller, in both checkers.
C10_OtherFailuresAreSignalled ==
    response.kind \in {"500", "timeout", "refused"} =>
        /\ fetched # "no" => fetched = "raised"
        /\ fetched2 # "no" => fetched2 = "raised"

\* C11: an AppConfig constructed with requests_per_minute = r, r a positive
\* divisor of 60, has min_interval_between_requests = 60 / r, and 60 / r is what
\* the rate limiter makes a request wait that comes right after another.
C11_MinIntervalIsSixtyOverRequestsPerMinute ==
    app_config # NoAppConfig =>
        /\ app_config.min_interval_between_requests
                = 60 \div app_config.requests_per_minute
        /\ WaitForNextRequest(StartTime, StartTime) - StartTime
                = 60 \div app_config.requests_per_minute

\* the pages whose text is in the document list
DocumentSources == { documents[j].src : j \in DOMAIN documents }

\* C12: with the seed linking to two pages below it (A, B) and to one outside
\* its path (O), max_links = 5, scraping_depth = 1, robots.txt allowing
\* everything and every page yielding valid text, scrape returns the documents
\* of the seed, of A and of B, never loads O, and returns at most 3 documents.
C12_DocsScenarioReturnsSeedAndChildren ==
    (/\ pc = "done"
     /\ site = SiteDocs /\ max_links = 5 /\ scraping_depth = 1
     /\ response = Response("200", TextEmpty)) =>
        /\ DocumentSources = {PageS, PageA, PageB}
        /\ PageO \notin LoadedUrls
        /\ Len(documents) <= 3

\* C13: no two URLs that differ in query string and fragment only are both
\* loaded in one session, the seed URL included.
C13_QueryAndFragmentVariantsLoadedOnce ==
    \A u, v \in LoadedUrls : NormalizeLink(u) = NormalizeLink(v) => u = v

\* C14: both _normalize_link map the URLs that differ from the given one in
\* query string and fragment only to the string they return for the given one,
\* and normalizing that string again returns it unchanged.
C14_NormalizeLinkCollapsesAndIsIdempotent ==
    /\ normalized.link_collector.called =>
        /\ \A q \in UrlQueries, f \in UrlFragments :
              NormalizeLinkString(
                  UrlString([given_url EXCEPT !.query = q, !.fragment = f]))
                = normalized.link_collector.link
        /\ NormalizeLinkString(normalized.link_collector.link)
                = normalized.link_collector.link
    /\ normalized.scraping.called =>
        /\ \A q \in UrlQueries, f \in UrlFragments :
              ScrapingNormalizeLink(
                  UrlString([given_url EXCEPT !.query = q, !.fragment = f]))
                = normalized.scraping.link
        /\ ScrapingNormalizeLink(normalized.scraping.link)
                = normalized.scraping.link

\* C14 witness: http://x/a?q#f was given to both and both returned http://x/a.
C14_Witness ==
    /\ given_url = Pieces(<<"http", ":">>, <<"/", "/", "x">>, <<"/", "a">>,
                          <<"?", "q">>, <<"#", "f">>)
    /\ normalized.link_collector
            = Normalized(<<"http", ":", "/", "/", "x", "/", "a">>)
    /\ normalized.scraping = normalized.link_collector

\* C15: once robots.txt was parsed, a session whose seed path starts with a
\* Disallow prefix of the "*" group ends with an empty document list, on every
\* site; a seed path that starts with no such prefix is allowed, and so is
\* every collected link of that kind, which scrape_page then loads.
C15_DisallowedSeedYieldsNoDocument ==
    (response.kind = "200" /\ fetched = "returned") =>
        IF DisallowedForAll(rules, base_url.path)
        THEN documents = <<>>
        ELSE /\ IsAllowed(rules, base_url.path, Star)
             /\ pc = "done" =>
                  \A i \in DOMAIN tasks :
                      ~ DisallowedForAll(rules, tasks[i].url.path) =>
                          BagIn(Load(tasks[i].url, "scrape"), loads)

\* C15 witness: robots.txt disallows /d, the seed /d links to pages below it,
\* they were collected and handed to scrape_page, and the session returned.
C15_Witness ==
    /\ pc = "done"
    /\ response = Response("200", TextDisallowD)
    /\ base_url = PageS
    /\ site = SiteStar
    /\ Len(tasks) = 3
    /\ documents = <<>>

\* the stripped text when both library stages succeed, "" otherwise
ExpectedText(h) ==
    IF h.summary = "ok" /\ h.extract = "str" THEN Strip(h.text) ELSE <<>>

\* C16: extract_readable_text of utils.py and of scraping/text_extractor.py
\* never raises: whatever the two library stages do, it returns the stripped
\* text when both succeeded and "" otherwise.
C16_ExtractReadableTextNeverRaises ==
    \A out \in {readable_text.utils, readable_text.scraping} :
        out # NotCalled => out = Outcome(None, ExpectedText(html))

\* C16 witness: trafilatura.extract returned None and both functions returned "".
C16_Witness ==
    /\ html = Html("ok", "None", <<>>)
    /\ readable_text.utils = Outcome(None, <<>>)
    /\ readable_text.scraping = Outcome(None, <<>>)

C19_PageLoadFailureReturnsEmptyList ==
    pw_pc = "exit" =>
        /\ fault.at \in {"goto", "content"} =>
                (pw_result = "returned" /\ pw_documents = <<>>)
        /\ fault.at = "launch" => pw_result = "BrowserLaunchError"

\* C20: when the Playwright scrape returns or propagates an exception, no page
\* and no browser it opened is still open.
C20_PageAndBrowserClosedOnEveryExit ==
    pw_pc = "exit" => (pw_page # "open" /\ browser # "open")

\* C22: when the list given to _scrape_links holds a URL more than once and two
\* workers run scrape_page for it, at most one of them reaches driver.get.
C22_DuplicateLinkLoadedByOneWorker ==
    \A l \in BagToSet(loads) : l.phase = "scrape" => CopiesIn(l, loads) <= 1

\* C24: the text scrape_page(url) returns is extracted from the page loaded for
\* url, whatever the other workers do with the shared driver meanwhile.
C24_TextComesFromThePageLoadedForUrl ==
    \A i \in DOMAIN tasks :
        tasks[i].result # EmptyText => tasks[i].result.src = tasks[i].url

\* C25: driver.quit is called exactly once on every path through scrape, only
\* after every worker submitted by _scrape_links has finished, and no
\* driver.get happens after it.
C25_DriverQuitOnceAfterAllWorkers ==
    /\ [](/\ driver.quits <= 1
          /\ pc = "done" => driver.quits = 1
          /\ driver.quits >= 1 =>
                \A i \in DOMAIN tasks : tasks[i].at = "consumed")
    /\ [][driver.quits >= 1 => loads' = loads]_vars

\* C25 witness: robots.txt timed out, a worker's page load raised, and the
\* session ended with one driver.quit.
C25_Witness ==
    /\ pc = "done"
    /\ response.kind = "timeout"
    /\ BagIn(Load(PageB, "scrape"), loads)
    /\ PageB \in site.broken
    /\ driver.quits = 1

\* C26: collect_all_links dequeues from the head of the frontier and enqueues
\* at its tail, so no entry left on the frontier, or put on it, has a smaller
\* depth than the entry just dequeued.
C26_FrontierDequeuedInFifoOrder ==
    [][(pc = "collect_loop" /\ links_to_visit' # links_to_visit) =>
          /\ links_to_visit # <<>>
          /\ Len(links_to_visit') >= Len(links_to_visit) - 1
          /\ SubSeq(links_to_visit', 1, Len(links_to_visit) - 1)
                = Tail(links_to_visit)
          /\ \A k \in DOMAIN links_to_visit' :
                links_to_visit'[k][2] >= Head(links_to_visit)[2]]_vars

\* C26 witness: after two pages were visited the frontier holds entries of two
\* depths.
C26_Witness ==
    /\ pc = "collect_loop"
    /\ Cardinality(lc_visited_urls) >= 2
    /\ \E j, k \in DOMAIN links_to_visit :
          links_to_visit[j][2] < links_to_visit[k][2]

\* the entries taken off the frontier so far: the seed and every collected
\* link were put on it, and what is not on it any more was dequeued
Dequeues == 1 + Len(collected_links) - Len(links_to_visit)

CollectLoads ==
    BagCardinality(loads) - BagCardinality(
        [l \in { m \in BagToSet(loads) : m.phase = "scrape" } |-> CopiesIn(l, loads)])

\* C27: collect_all_links terminates on every site, cyclic ones included: at
\* most max_links entries are pushed after the seed, so it makes at most
\* 1 + max_links dequeues and at most 1 + max_links page loads, and returns.
C27_CollectAllLinksTerminates ==
    /\ [](pc \in {"collect_loop", "scrape_links"} =>
            /\ Len(collected_links) <= max_links
            /\ Dequeues <= 1 + max_links
            /\ CollectLoads <= 1 + max_links)
    /\ (pc = "collect_loop" ~> pc = "scrape_links")

\* C27 witness: on the cyclic site the loop stopped at the budget with entries
\* left on the frontier.
C27_Witness ==
    /\ pc = "scrape_links"
    /\ site = SiteCycle
    /\ Len(collected_links) = max_links
    /\ links_to_visit # <<>>

\* C30: after a robots.txt request that timed out, was refused or was answered
\* 5xx, the rule set is empty, fetch has returned, scrape goes on to collect
\* links, and is_allowed returns True for every path: the same for each kind.
C30_RobotsFailureIsLenientForEveryKind ==
    (response.kind \in {"500", "timeout", "refused"} /\ fetched # "no") =>
        /\ fetched = "returned"
        /\ rules = EmptyRules
        /\ pc = "done" => BagIn(Load(base_url, "collect"), loads)
        /\ \A path \in AskPaths : IsAllowed(rules, path, Star)

\* C30 witness: robots.txt was answered 500 and the session returned documents.
C30_Witness ==
    /\ pc = "done"
    /\ response.kind = "500"
    /\ documents # <<>>

\* ==================================================== the Streamlit entry
\* start_scraping and scrape_and_process of main.py, called with the URL the
\* user typed.  network holds, in order, what the call has sent to a server or
\* built: the HEAD request of url_exists, the WebScraper, and scrape's
\* robots.txt request and page loads.

\* utils.is_valid_url, testing the scheme only
IsValidUrl_SchemeOnly(url) == UrlParse(url).scheme # ""

\* utils.is_valid_url
IsValidUrl(url) ==
    LET parsed == UrlParse(url)
    IN  parsed.scheme # "" /\ parsed.netloc # <<>>

\* urllib's SplitResult.hostname: the netloc before its port
HostName(netloc) == SubSeq(netloc, 1, Find(netloc, {":"}, 1) - 1)

\* what the server answers to the HEAD request, or how the request fails
HeadAnswers == {"200", "404", "ConnectionError"}

\* requests.head(url) as url_exists calls it: requests refuses a URL without a
\* scheme (MissingSchema) or without a host (InvalidURL) before it opens a
\* connection; both are RequestException.
RequestsHead(url, answer) ==
    LET parsed == UrlParse(url)
    IN  IF parsed.scheme = "" THEN [sent |-> FALSE, status |-> "MissingSchema"]
        ELSE IF HostName(parsed.netloc) = <<>>
        THEN [sent |-> FALSE, status |-> "InvalidURL"]
        ELSE [sent |-> TRUE, status |-> answer]

\* utils.url_exists: status_code == 200; except RequestException: False
UrlExists(head) == head.status = "200"

\* start_scraping's except clauses: ValueError, then Exception
ExceptValueError(exc) ==
    IF exc.type = "ValueError" THEN "An error occurred: " \o exc.message
    ELSE "An unexpected error occurred: " \o exc.message

ValueError(message) == [type |-> "ValueError", message |-> message]

\* the seed URLs typed: those of Urls (the empty string is one of them), and
\* the ones whose netloc is a port without a host
MainUrls ==
    Urls \cup { Pieces(sc, <<"/", "/", ":", "80">>, p, <<>>, <<>>) :
                sc \in UrlSchemes, p \in UrlPaths }

InitMain ==
    /\ st_url \in MainUrls
    /\ error_mes = ""
    /\ scraping_done = FALSE
    /\ network = <<>>
    /\ main_pc = "start_scraping"
    /\ RecursiveIdle
    /\ ToolsIdle
    /\ PlaywrightIdle
    /\ NoSession

mainFixed == <<robotsVars, crawlVars, rateVars, toolVars, pwVars, lockVars, stack>>

\* an exception raised inside the try of start_scraping
MainRaise(exc) ==
    /\ error_mes' = ExceptValueError(exc)
    /\ main_pc' = "returned"
    /\ UNCHANGED scraping_done

\* start_scraping up to the call of scrape_and_process
StartScraping ==
    /\ main_pc = "start_scraping"
    /\ IF UrlString(st_url) = <<>>
       THEN /\ error_mes' = "URL cannot be empty. Please enter a valid URL."
            /\ main_pc' = "returned"
       ELSE /\ main_pc' = "is_valid_url"
            /\ UNCHANGED error_mes
    /\ UNCHANGED <<mainFixed, st_url, scraping_done, network>>

\* scrape_and_process: if not is_valid_url(url): raise ValueError
CheckIsValidUrl ==
    /\ main_pc = "is_valid_url"
    /\ IF ~ IsValidUrl(UrlString(st_url))
       THEN MainRaise(ValueError("Invalid URL format"))
       ELSE main_pc' = "url_exists" /\ UNCHANGED <<error_mes, scraping_done>>
    /\ UNCHANGED <<mainFixed, st_url, network>>

\* scrape_and_process: if not url_exists(url): raise ValueError
CheckUrlExists ==
    /\ main_pc = "url_exists"
    /\ \E answer \in HeadAnswers :
         LET head == RequestsHead(UrlString(st_url), answer)
         IN  /\ network' = IF head.sent THEN Append(network, "HEAD") ELSE network
             /\ IF ~ UrlExists(head)
                THEN MainRaise(ValueError("The URL does not exist"))
                ELSE main_pc' = "WebScraper" /\ UNCHANGED <<error_mes, scraping_done>>
    /\ UNCHANGED <<mainFixed, st_url>>

\* scraper = WebScraper(url)
ConstructWebScraper ==
    /\ main_pc = "WebScraper"
    /\ network' = Append(network, "WebScraper")
    /\ main_pc' = "scrape"
    /\ UNCHANGED <<mainFixed, st_url, error_mes, scraping_done>>

\* documents = scraper.scrape(): the list of documents, or None when safe_run
\* took an exception
MainScrape ==
    /\ main_pc = "scrape"
    /\ network' = network \o <<"robots.txt", "driver.get">>
    /\ \E scraped \in {"None", "empty", "documents"} :
         IF scraped = "None"
         THEN MainRaise(ValueError("Failed to scrape documents"))
         ELSE main_pc' = "create_index" /\ UNCHANGED <<error_mes, scraping_done>>
    /\ UNCHANGED <<mainFixed, st_url>>

\* QuestionAnswering(documents, ...).create_index(), then the rest of the try
CreateIndex ==
    /\ main_pc = "create_index"
    /\ \/ /\ scraping_done' = TRUE
          /\ error_mes' = ""
          /\ main_pc' = "returned"
       \/ MainRaise([type |-> "Exception", message |-> "create_index"])
    /\ UNCHANGED <<mainFixed, st_url, network>>

NextMain ==
    \/ StartScraping
    \/ CheckIsValidUrl
    \/ CheckUrlExists
    \/ ConstructWebScraper
    \/ MainScrape
    \/ CreateIndex

SpecMain == InitMain /\ [][NextMain]_vars

\* the URL lacks a scheme or a host (the empty URL lacks both)
LacksSchemeOrHost(u) ==
    \/ u.scheme = <<>>
    \/ u.host \in {<<>>, <<"/", "/", ":", "80">>}

\* C21: for an empty seed URL or one without a scheme or a host, start_scraping
\* sends no HEAD request, no robots.txt request, builds no WebScraper and loads
\* no page; scraping_done stays False; it returns with error_mes set; and a
\* URL that urlparse gives no scheme or no netloc never reaches url_exists.
C21_MalformedUrlRejectedBeforeNetwork ==
    LacksSchemeOrHost(st_url) =>
        /\ network = <<>>
        /\ scraping_done = FALSE
        /\ main_pc = "returned" => error_mes # ""
        /\ (st_url.scheme = <<>> \/ st_url.host = <<>>) =>
               main_pc \in {"idle", "start_scraping", "is_valid_url", "returned"}

\* C21 witness: a URL without a scheme was rejected by scrape_and_process.
C21_Witness ==
    /\ main_pc = "returned"
    /\ st_url.scheme = <<>>
    /\ st_url.host = <<"/", "/", "x">>
    /\ error_mes = "An error occurred: Invalid URL format"
    /\ network = <<>>

\* ============================== wait_for_next_request under WebScraper.lock
\* WebScraper.wait_for_next_request of scraping/scraper.py, called by any
\* number of threads on one WebScraper.  Each caller records in seen the
\* values of last_request_time it computed its wait from.

MaxCallers == 3
MaxStamps == 3

LockCaller == [at |-> "call", calls |-> 0, seen |-> <<>>, wake |-> 0]

\* threading.Lock.__enter__ without mutual exclusion
MayAcquire_NoExclusion(holder) == TRUE

\* threading.Lock.__enter__: the caller goes on when no thread holds the lock
MayAcquire(holder) == holder = 0

\* the calls of wait_for_next_request made so far
RECURSIVE CallsMade(_)
CallsMade(cs) ==
    IF cs = <<>> THEN 0 ELSE Head(cs).calls + CallsMade(Tail(cs))

InitLock ==
    /\ now = StartTime
    /\ last_request_time = 0
    /\ \E n \in 1..MaxCallers : callers = [i \in 1..n |-> LockCaller]
    /\ starts = EmptyBag
    /\ lock = 0
    /\ stamps = <<>>
    /\ stack = <<>>
    /\ base_url = NoUrl
    /\ response = Response("404", <<>>)
    /\ robots_url = NoUrl
    /\ rules = EmptyRules
    /\ fetched = "no"
    /\ requested = NoUrl
    /\ RobotsIdle
    /\ CrawlIdle
    /\ MainIdle
    /\ ToolsIdle
    /\ PlaywrightIdle

lockFixed == <<robotsVars, crawlVars, toolVars, pwVars, mainVars, stack, starts>>

\* with self.lock: entered
LockAcquire(i) ==
    /\ callers[i].at = "call"
    /\ CallsMade(callers) < MaxStamps
    /\ MayAcquire(lock)
    /\ lock' = i
    /\ callers' = [callers EXCEPT ![i].at = "read", ![i].calls = @ + 1]
    /\ UNCHANGED <<lockFixed, now, last_request_time, stamps>>

\* current_time = time.time(); time_since_last_request is computed from
\* last_request_time; the thread goes to sleep or straight to the stamp
LockRead(i) ==
    /\ callers[i].at = "read"
    /\ \E d \in 0..MaxDelay :
        /\ now' = now + d
        /\ callers' = [callers EXCEPT
                ![i].at = IF now' - last_request_time < MinInterval
                          THEN "sleep" ELSE "stamp",
                ![i].seen = Append(@, last_request_time),
                ![i].wake = IF now' - last_request_time < MinInterval
                            THEN WaitForNextRequest(now', last_request_time)
                            ELSE 0]
    /\ UNCHANGED <<lockFixed, last_request_time, lock, stamps>>

\* time.sleep(wait_time) returns
LockSleep(i) ==
    /\ callers[i].at = "sleep"
    /\ now' = Max(now, callers[i].wake)
    /\ callers' = [callers EXCEPT ![i].at = "stamp", ![i].wake = 0]
    /\ UNCHANGED <<lockFixed, last_request_time, lock, stamps>>

\* self.last_request_time = time.time()
LockStamp(i) ==
    /\ callers[i].at = "stamp"
    /\ \E d \in 0..MaxDelay :
        /\ now' = now + d
        /\ last_request_time' = now'
        /\ stamps' = Append(stamps, now')
    /\ callers' = [callers EXCEPT ![i].at = "exit"]
    /\ UNCHANGED <<lockFixed, lock>>

\* the with block is left: the lock is released
LockRelease(i) ==
    /\ callers[i].at = "exit"
    /\ lock' = 0
    /\ callers' = [callers EXCEPT ![i].at = "call"]
    /\ UNCHANGED <<lockFixed, now, last_request_time, stamps>>

NextLock ==
    \/ \E i \in DOMAIN callers : LockAcquire(i)
    \/ \E i \in DOMAIN callers : LockRead(i)
    \/ \E i \in DOMAIN callers : LockSleep(i)
    \/ \E i \in DOMAIN callers : LockStamp(i)
    \/ \E i \in DOMAIN callers : LockRelease(i)

SpecLock == InitLock /\ [][NextLock]_vars

\* a caller between the read of last_request_time and the end of the block
InsideLock(i) == callers[i].at \in {"read", "sleep", "stamp", "exit"}

\* C23: a caller of wait_for_next_request reads last_request_time, sleeps and
\* writes the stamp only while it holds the lock; no value of
\* last_request_time is read by two calls; two consecutively written stamps
\* are at least min_interval_between_requests apart.
C23_LockSerializesCallers ==
    /\ \A i \in DOMAIN callers : InsideLock(i) => lock = i
    /\ \A i, j \in DOMAIN callers :
         \A k \in DOMAIN callers[i].seen, l \in DOMAIN callers[j].seen :
            (i # j \/ k # l) => callers[i].seen[k] # callers[j].seen[l]
    /\ \A k \in 1..(Len(stamps) - 1) : stamps[k + 1] - stamps[k] >= MinInterval

\* C23 witness: three callers were in wait_for_next_request, the second and
\* the third had to sleep, and three stamps were written.
C23_Witness ==
    /\ Len(callers) = 3
    /\ \A i \in DOMAIN callers : Len(callers[i].seen) = 1
    /\ Len(stamps) = 3
    /\ stamps[3] - stamps[1] = 2 * MinInterval

\* ================================================= the recursive crawler
\* WebScraper.scrape of scraping/scraper.py: robots_checker.fetch of
\* scraping/robots.py, _scrape_recursive from base_url, driver.quit.  One
\* thread runs it; stack holds the calls of _scrape_recursive that have not
\* returned, each with the anchors of its page and the position of its loop.

\* a page on another host
PageX == Url("http", "x", PathD)

\* the seed links to a page below it and to one on another host, which links
\* back into the site
SiteExternal ==
    Site((PageS :> {PageA, PageX}) @@ (PageX :> {PageB}), {}, {})

RecursiveSites == Sites \cup {SiteExternal}

\* WebScraper.is_same_domain
IsSameDomain(base, url) == url.netloc = base.netloc

\* the budget test with > for >=
BudgetReached_OffByOne(visited, limit) == Cardinality(visited) > limit

\* len(self.visited_urls) >= self.max_links
BudgetReached(visited, limit) == Cardinality(visited) >= limit

\* the texts of the <p> elements of a loaded page
Paragraphs(st, page) ==
    << Text(page, IF page \in st.short THEN MinDocumentLength
                  ELSE MinDocumentLength + 1) >>

\* a call of _scrape_recursive(url) at its first line
Call(url) == [url |-> url, at |-> "enter", links |-> <<>>, k |-> 1]

Top == stack[Len(stack)]

Pop == SubSeq(stack, 1, Len(stack) - 1)

InitRecursive ==
    /\ base_url = PageS
    /\ response \in CrawlResponses
    /\ content = NoContent
    /\ fetched2 = "no"
    /\ requested2 = NoUrl
    /\ asked = NotAsked
    /\ robots_url = NoUrl
    /\ rules = EmptyRules
    /\ fetched = "no"
    /\ requested = NoUrl
    /\ site \in RecursiveSites
    /\ max_links \in (1..MaxLinksBound) \cup {5}
    /\ scraping_depth = 0
    /\ pc = "fetch_robots"
    /\ lc_visited_urls = {}
    /\ links_to_visit = <<>>
    /\ collected_links = <<>>
    /\ visited_urls = {}
    /\ documents = <<>>
    /\ tasks = <<>>
    /\ driver = NoDriverPage
    /\ loads = EmptyBag
    /\ pushed = {}
    /\ RateIdle
    /\ RecursiveIdle
    /\ MainIdle
    /\ ToolsIdle
    /\ PlaywrightIdle

recursiveFixed ==
    <<toolVars, pwVars, mainVars, lock, base_url, response, robots_url, rules,
      fetched, requested, site, max_links, scraping_depth, lc_visited_urls,
      links_to_visit, collected_links, tasks, pushed, callers, starts>>

\* scrape: self.robots_checker.fetch(); its ValueError goes to the except
\* clause of scrape and from there to the finally clause
RecursiveFetchRobots ==
    /\ pc = "fetch_robots"
    /\ LET out == ScrapingFetch(response, content) IN
        /\ requested2' = ScrapingRobotsUrl(base_url)
        /\ content' = out.content
        /\ fetched2' = IF out.exc = None THEN "returned" ELSE "raised"
        /\ pc' = IF out.exc = None THEN "scrape_recursive" ELSE "finally"
        /\ stack' = IF out.exc = None THEN <<Call(base_url)>> ELSE <<>>
    /\ UNCHANGED <<recursiveFixed, asked, visited_urls, documents, driver,
                   loads, now, last_request_time, stamps>>

\* _scrape_recursive(url) up to wait_for_next_request: the test on
\* visited_urls and max_links, visited_urls.add(url), and
\* robots_checker.is_allowed(urlparse(url).path)
ScrapeRecursiveEnter ==
    /\ pc = "scrape_recursive"
    /\ stack # <<>>
    /\ Top.at = "enter"
    /\ IF Top.url \in visited_urls \/ BudgetReached(visited_urls, max_links)
       THEN /\ stack' = Pop
            /\ UNCHANGED <<visited_urls, asked>>
       ELSE LET answer == ScrapingIsAllowed(base_url, content, Top.url.path) IN
            /\ visited_urls' = visited_urls \cup {Top.url}
            /\ asked' = [who |-> "scraping/scraper.py", path |-> <<>>,
                         user_agent |-> Top.url.path, answer |-> answer]
            /\ stack' = IF answer = "True"
                        THEN [stack EXCEPT ![Len(stack)].at = "get"]
                        ELSE Pop
    /\ UNCHANGED <<recursiveFixed, content, fetched2, requested2, pc,
                   documents, driver, loads, now, last_request_time, stamps>>

\* wait_for_next_request, driver.get(url), time.sleep(page_load_sleep), the
\* texts of the page's <p> elements appended to documents, and the list of
\* its anchors; a page that fails to load raises into the except clauses
ScrapeRecursiveGet ==
    /\ pc = "scrape_recursive"
    /\ stack # <<>>
    /\ Top.at = "get"
    /\ LET stamp == WaitForNextRequest(now, last_request_time) IN
        /\ last_request_time' = stamp
        /\ stamps' = Append(stamps, stamp)
        /\ now' = IF Top.url \in site.broken THEN stamp
                  ELSE stamp + PageLoadSleep
    /\ loads' = loads (+) SetToBag({Load(Top.url, "recursive")})
    /\ IF Top.url \in site.broken
       THEN /\ stack' = Pop
            /\ UNCHANGED <<documents, driver>>
       ELSE /\ driver' = [driver EXCEPT !.page = Top.url]
            /\ documents' = documents \o Paragraphs(site, Top.url)
            /\ \E anchors \in Orders(PageLinks(site, Top.url)) :
                 stack' = [stack EXCEPT ![Len(stack)].at = "links",
                                        ![Len(stack)].links = anchors]
    /\ UNCHANGED <<recursiveFixed, content, fetched2, requested2, asked, pc,
                   visited_urls>>

\* one pass of the loop over the anchors: the break on the budget, urljoin,
\* is_same_domain and the recursive call; the call returns when the loop ends
ScrapeRecursiveLink ==
    /\ pc = "scrape_recursive"
    /\ stack # <<>>
    /\ Top.at = "links"
    /\ IF Top.k > Len(Top.links) \/ BudgetReached(visited_urls, max_links)
       THEN stack' = Pop
       ELSE LET full_url == Top.links[Top.k]
                next == [stack EXCEPT ![Len(stack)].k = @ + 1]
            IN  stack' = IF IsSameDomain(base_url, full_url)
                         THEN Append(next, Call(full_url))
                         ELSE next
    /\ UNCHANGED <<recursiveFixed, content, fetched2, requested2, asked, pc,
                   visited_urls, documents, driver, loads, now,
                   last_request_time, stamps>>

\* scrape: finally: self.driver.quit(); return self.documents
RecursiveQuit ==
    /\ \/ pc = "finally"
       \/ pc = "scrape_recursive" /\ stack = <<>>
    /\ driver' = [driver EXCEPT !.quits = @ + 1]
    /\ pc' = "done"
    /\ UNCHANGED <<recursiveFixed, content, fetched2, requested2, asked,
                   visited_urls, documents, loads, now, last_request_time,
                   stamps, stack>>

NextRecursive ==
    \/ RecursiveFetchRobots
    \/ ScrapeRecursiveEnter
    \/ ScrapeRecursiveGet
    \/ ScrapeRecursiveLink
    \/ RecursiveQuit

SpecRecursive == InitRecursive /\ [][NextRecursive]_vars

\* C28: in the recursive crawler, no URL other than the seed is loaded when
\* its path starts with a Disallow prefix of the `*` group of the robots.txt
\* that was fetched.
C28_DisallowedDiscoveredUrlNeverLoaded ==
    content.is = "text" =>
        \A l \in BagToSet(loads) :
            l.url # base_url =>
                IsPathAllowed(Star, l.url.path, ScrapingParse(content.text))

\* C29: in the recursive crawler len(visited_urls) <= max_links, every URL
\* given to driver.get is in visited_urls, and at most max_links pages are
\* loaded in a session.
C29_VisitedAndLoadsWithinMaxLinks ==
    /\ Cardinality(visited_urls) <= max_links
    /\ \A l \in BagToSet(loads) : l.url \in visited_urls
    /\ BagCardinality(loads) <= max_links
    /\ \A i \in DOMAIN stack : stack[i].at # "enter" => stack[i].url \in visited_urls

\* C29 witness: the seed exposes four same-domain links, max_links is 2, and
\* the session ended with two URLs visited and two pages loaded.
C29_Witness ==
    /\ pc = "done"
    /\ site = SiteStar
    /\ max_links = 2
    /\ Cardinality(visited_urls) = 2
    /\ BagCardinality(loads) = 2

====
